---------------------------- MODULE Spec2Model ----------------------------
(***************************************************************************)
(* GraphWaveGenerator (stellargraph/mapper/graphwave_generator.py).        *)
(*                                                                         *)
(* The generator is built once from a graph (constructor), then flow()     *)
(* returns a tf.data pipeline                                              *)
(*     from_tensor_slices(rows).map(einsum).map(ecf) [zip targets]         *)
(*         .cache().batch(batch_size)[.repeat()]                           *)
(* whose elements are pulled batch by batch.                               *)
(*                                                                         *)
(* The adjacency matrix and the Laplacian are only inputs of the sparse    *)
(* eigensolver; the model starts from what the solver returns (any of a    *)
(* small set of eigenpairs) and from the solver's rejection of a k outside *)
(* 1..N-2.  The Dataset operators (map, zip, cache, batch, repeat) are     *)
(* modelled by their documented tf.data behaviour.                         *)
(*                                                                         *)
(* Numbers.  The code computes in float32; the model computes in exact     *)
(* integer fixed point: scales are counted in thousandths, exp(-x) is      *)
(* rounded to quarters, and the angle t*psi handed to cos and sin is       *)
(* counted in quarter turns, where cos and sin are exact.  A mean is the   *)
(* exact fraction [num, den].  Sequences are 1-based; an index the code    *)
(* keeps 0-based (node_index_dict) is stored 0-based and shifted on use.   *)
(***************************************************************************)
EXTENDS Integers, Sequences

(* ------------------------------ bounds -------------------------------- *)
MaxNodes == 4     \* graphs have 3..MaxNodes nodes
MaxScales == 2    \* num_scales ranges over 1..MaxScales
MaxPoints == 2    \* sample_points has 1..MaxPoints entries
MaxIds == 3       \* node_ids has 1..MaxIds entries
MaxBatch == 2     \* batch_size ranges over 1..MaxBatch
MaxThreads == 2   \* threads ranges over 1..MaxThreads
MaxPasses == 2    \* passes over the data a consumer pulls before it stops

(* --------------------------- program constants ------------------------ *)
NegLog095 == 51   \* -np.log(0.95), in thousandths
NegLog085 == 163  \* -np.log(0.85), in thousandths
AutoNumEigenvecs == -1  \* num_eigenvecs value that asks for the maximum

VARIABLES gen, streams

vars == <<gen, streams>>

(* ------------------------------ helpers ------------------------------- *)
Range(f) == {f[x] : x \in DOMAIN f}

RECURSIVE SumSeq(_)
SumSeq(q) == IF q = <<>> THEN 0 ELSE q[1] + SumSeq(Tail(q))

RECURSIVE Flatten(_)
\* K.flatten / concatenation of a sequence of sequences, row-major
Flatten(qq) == IF qq = <<>> THEN <<>> ELSE qq[1] \o Flatten(Tail(qq))

Min(S) == CHOOSE x \in S : \A y \in S : x <= y
Max(S) == CHOOSE x \in S : \A y \in S : x >= y

\* floor(100 * sqrt(v)) for a small natural v
Sqrt100(v) == CHOOSE r \in 0..(100 * v + 100) :
                  r * r <= 10000 * v /\ (r + 1) * (r + 1) > 10000 * v

\* round(4 * exp(-x / 1000)): np.exp of a non-positive argument, in quarters
ExpNeg(x) == IF x <= 133 THEN 4
             ELSE IF x <= 470 THEN 3
             ELSE IF x <= 980 THEN 2
             ELSE IF x <= 2079 THEN 1
             ELSE 0

\* tf.math.cos / tf.math.sin of an angle counted in quarter turns
Cos(a) == CASE a % 4 = 0 -> 1 [] a % 4 = 1 -> 0 [] a % 4 = 2 -> -1 [] OTHER -> 0
Sin(a) == CASE a % 4 = 0 -> 0 [] a % 4 = 1 -> 1 [] a % 4 = 2 -> 0 [] OTHER -> -1


(* ---------------------- linear algebra of __init__ -------------------- *)
\* np.diag(v): the square matrix with v on the diagonal
Diag(v) == [a \in 1..Len(v) |-> [b \in 1..Len(v) |-> IF a = b THEN v[a] ELSE 0]]

\* A.dot(B) for an (n x l) and an (l x c) matrix
Dot(A, B) == [a \in 1..Len(A) |->
                [b \in 1..Len(B[1]) |->
                   SumSeq([l \in 1..Len(B) |-> A[a][l] * B[l][b]])]]

\* np.dstack of S matrices of shape (N, k): the tensor of shape (N, k, S)
Dstack(ms) == [i \in 1..Len(ms[1]) |->
                 [j \in 1..Len(ms[1][1]) |->
                    [s \in 1..Len(ms) |-> ms[s][i][j]]]]

\* np.linspace(lo, hi, num), endpoints included
Linspace(lo, hi, num) ==
    [i \in 1..num |-> IF num = 1 THEN lo
                      ELSE lo + ((i - 1) * (hi - lo)) \div (num - 1)]

\* scales == "auto": the wavelet scales from the eigenvalues
AutoScales(eigen_vals, num_scales) ==
    LET e2 == Min({v \in Range(eigen_vals) : v > 0})
        eN == Max(Range(eigen_vals))
        min_scale == (NegLog095 * 100) \div Sqrt100(eN * e2)
        max_scale == (NegLog085 * 100) \div Sqrt100(eN * e2)
    IN  Linspace(min_scale, max_scale, num_scales)

\* self.Ues: [U exp(-scale * eigenvalues) for scale in scales], stacked
WaveletCache(eigen_vecs, eigen_vals, scales) ==
    Dstack([s \in 1..Len(scales) |->
              Dot(eigen_vecs,
                  Diag([j \in 1..Len(eigen_vals) |->
                          ExpNeg(scales[s] * eigen_vals[j])]))])

(* ------------------------------ __init__ ------------------------------ *)
NoGenerator == [state |-> "none"]

CtorError(G, type) == [state |-> "error", G |-> G, error |-> type]

\* dict(zip(node_list, range(len(node_list)))): node id -> 0-based position
NodeIndexDict(node_list) ==
    [v \in Range(node_list) |->
        Max({p \in 1..Len(node_list) : node_list[p] = v}) - 1]

\* the number of eigenpairs eigs is asked for
NumEigenvecs(G, num_eigenvecs) ==
    IF num_eigenvecs = AutoNumEigenvecs THEN Len(G.node_list) - 2
    ELSE num_eigenvecs

\* scipy eigs rejects k <= 0 and, for a sparse matrix, k >= N - 1
EigsRejects(N, k) == k <= 0 \/ k >= N - 1

\* len(node_types) > 1
TooManyNodeTypesLax(node_types) == Len(node_types) > 2
TooManyNodeTypes(node_types) == Len(node_types) > 1

\* GraphWaveGenerator(G, scales, num_scales, num_eigenvecs); eig is the
\* eigendecomposition the sparse solver returns for the graph's Laplacian
GraphWaveGenerator(G, scales, num_scales, num_eigenvecs, eig) ==
    IF ~G.isStellarGraph THEN CtorError(G, "TypeError")
    ELSE IF TooManyNodeTypes(G.node_types) THEN CtorError(G, "TypeError")
    ELSE IF Len(G.node_types) = 0 THEN CtorError(G, "IndexError")
    ELSE IF EigsRejects(Len(G.node_list), NumEigenvecs(G, num_eigenvecs))
         THEN CtorError(G, "EigsError")
    ELSE IF scales.mode = "auto" /\ {v \in Range(eig.vals) : v > 0} = {}
         THEN CtorError(G, "ValueError")
    ELSE LET sc == IF scales.mode = "auto"
                   THEN AutoScales(eig.vals, num_scales)
                   ELSE scales.values
         IN  [state |-> "ok",
              G |-> G,
              node_list |-> G.node_list,
              node_index_dict |-> NodeIndexDict(G.node_list),
              eigen_vals |-> eig.vals,
              eigen_vecs |-> eig.vecs,
              scales |-> sc,
              Ues |-> WaveletCache(eig.vecs, eig.vals, sc)]

(* -------------------- the per-node transform of flow ------------------ *)
\* tf.einsum("ijk,j->ik", Ues, x): contract the eigenvector axis j
EinsumWrongAxis(Ues, x) ==
    [j \in 1..Len(Ues[1]) |->
       [s \in 1..Len(Ues[1][1]) |->
          SumSeq([i \in 1..Len(x) |-> Ues[i][j][s] * x[i]])]]
Einsum(Ues, x) ==
    [i \in 1..Len(Ues) |->
       [s \in 1..Len(Ues[1][1]) |->
          SumSeq([j \in 1..Len(x) |-> Ues[i][j][s] * x[j]])]]

\* tf.math.reduce_mean(f(t_psi), axis=1): (nt, ns, scales) -> (nt, scales)
ReduceMeanAxis1(t) ==
    [r \in 1..Len(t) |->
       [s \in 1..Len(t[1][1]) |->
          [num |-> SumSeq([i \in 1..Len(t[r]) |-> t[r][i][s]]),
           den |-> Len(t[r])]]]

\* samples * ts after the two expand_dims: (1, ns, scales) * (nt, 1, 1)
TPsi(samples, ts) ==
    [r \in 1..Len(ts) |->
       [i \in 1..Len(samples) |->
          [s \in 1..Len(samples[1]) |-> samples[i][s] * ts[r]]]]

\* tf.math.cos(t_psi) and tf.math.sin(t_psi), elementwise
CosTensor(t) ==
    [r \in 1..Len(t) |->
       [i \in 1..Len(t[r]) |-> [s \in 1..Len(t[r][i]) |-> Cos(t[r][i][s])]]]
SinTensor(t) ==
    [r \in 1..Len(t) |->
       [i \in 1..Len(t[r]) |-> [s \in 1..Len(t[r][i]) |-> Sin(t[r][i][s])]]]

\* _empirical_characteristic_function(samples, ts): the embedding of one node
EcfCosOnly(samples, ts) ==
    Flatten(ReduceMeanAxis1(CosTensor(TPsi(samples, ts))))
EcfInterleaved(samples, ts) ==
    LET c == ReduceMeanAxis1(CosTensor(TPsi(samples, ts)))
        z == ReduceMeanAxis1(SinTensor(TPsi(samples, ts)))
    IN  Flatten([a \in 1..(2 * Len(ts)) |->
                   IF a % 2 = 1 THEN c[(a + 1) \div 2] ELSE z[a \div 2]])
_empirical_characteristic_function(samples, ts) ==
    LET t_psi == TPsi(samples, ts)
        mean_cos_t_psi == ReduceMeanAxis1(CosTensor(t_psi))
        mean_sin_t_psi == ReduceMeanAxis1(SinTensor(t_psi))
    IN  Flatten(mean_cos_t_psi \o mean_sin_t_psi)

(* ------------------------------- flow --------------------------------- *)
\* An optional value is a sequence of length 0 (None) or 1.
None == <<>>
Some(v) == <<v>>

NoStream == [state |-> "none"]

\* node_index_dict.get, vectorized over node_ids: None for an unknown id
_node_lookup(node_index_dict, node_ids) ==
    [i \in 1..Len(node_ids) |->
        IF node_ids[i] \in DOMAIN node_index_dict
        THEN Some(node_index_dict[node_ids[i]])
        ELSE None]

\* np.vectorize(..., otypes=[np.int64]) converting the looked-up values:
\* a None among them raises TypeError("int() argument must be a string, a
\* bytes-like object or a number, not 'NoneType'"), which names no node id
LookupFailure(node_ids, lookup) ==
    [state |-> "error", node_ids |-> node_ids,
     error |-> [type |-> "TypeError", ids |-> {}]]

\* the Dataset flow() returns, with the state of the one iterator over it
FlowResult(g, node_ids, sample_points, batch_size, targets, repeat, threads) ==
    LET lookup == _node_lookup(g.node_index_dict, node_ids)
        n == Len(node_ids)
    IN  IF \E i \in 1..n : lookup[i] = None
        THEN LookupFailure(node_ids, lookup)
        ELSE [state |-> "open",
              node_ids |-> node_ids,
              rows |-> [i \in 1..n |-> g.eigen_vecs[lookup[i][1] + 1]],
              ts |-> sample_points,
              batch_size |-> batch_size,
              targets |-> targets,
              repeat |-> repeat,
              threads |-> threads,
              samples |-> [i \in 1..n |-> None],   \* first map's results
              embs |-> [i \in 1..n |-> None],      \* second map's results
              ncontract |-> [i \in 1..n |-> 0],    \* einsum calls per position
              necf |-> [i \in 1..n |-> 0],         \* ecf calls per position
              cache |-> <<>>,                      \* .cache(): elements kept
              cache_complete |-> FALSE,
              rd |-> 1,                            \* read position in the cache
              cur |-> <<>>,                        \* .batch(): batch being filled
              pass |-> 1,
              out |-> <<>>]                        \* batches yielded so far

\* Dataset.zip((dataset, target_dataset)): the i-th element of each
ZipElementReversed(s, i) ==
    [emb |-> s.embs[i][1],
     tgt |-> IF s.targets = None THEN None
             ELSE Some(s.targets[1][Len(s.targets[1]) - i + 1]),
     src |-> i]
ZipElement(s, i) ==
    [emb |-> s.embs[i][1],
     tgt |-> IF s.targets = None THEN None ELSE Some(s.targets[1][i]),
     src |-> i]

\* the position the in-order parallel map hands downstream next
AnyReady(s) ==
    LET sent == {s.cache[a].src : a \in 1..Len(s.cache)}
        ready == {i \in 1..Len(s.node_ids) : s.embs[i] # None /\ i \notin sent}
    IN  IF ready = {} THEN Len(s.cache) + 1 ELSE Max(ready)
NextDeliverable(s) == Len(s.cache) + 1

\* the element a later pass reads from the in-memory cache
CacheReadReversed(cache, rd) == cache[Len(cache) - rd + 1]
CacheRead(cache, rd) == cache[rd]

\* .batch(batch_size): add element e; a full batch is yielded
Batched(s, e) ==
    LET cur2 == Append(s.cur, [emb |-> e.emb, tgt |-> e.tgt, src |-> e.src,
                               pass |-> s.pass])
    IN  IF Len(cur2) = s.batch_size
        THEN [s EXCEPT !.cur = <<>>, !.out = Append(s.out, cur2)]
        ELSE [s EXCEPT !.cur = cur2]

\* .batch() at the end of its input: the partial batch is yielded, and
\* nothing is carried into the next pass (batch is applied before repeat)
PassBoundaryCarry(s) ==
    IF s.repeat THEN [emit |-> <<>>, carry |-> s.cur]
    ELSE [emit |-> IF s.cur = <<>> THEN <<>> ELSE <<s.cur>>, carry |-> <<>>]
PassBoundary(s) ==
    [emit |-> IF s.cur = <<>> THEN <<>> ELSE <<s.cur>>, carry |-> <<>>]

\* the first element the upstream (zip of the maps and the targets) lacks
UpstreamExhausted(s) ==
    LET i == Len(s.cache) + 1
    IN  \/ i > Len(s.node_ids)
        \/ /\ i <= Len(s.node_ids)
           /\ s.targets # None
           /\ i > Len(s.targets[1])
           /\ s.embs[i] # None

\* the iterator after a pass that yielded `count` elements: .repeat() starts
\* the next pass, served from the now complete cache
NextPassRecompute(s, count) ==
    IF s.repeat /\ count > 0
    THEN [s EXCEPT !.pass = s.pass + 1, !.rd = 1, !.cache = <<>>,
                   !.cache_complete = FALSE,
                   !.samples = [i \in 1..Len(s.node_ids) |-> None],
                   !.embs = [i \in 1..Len(s.node_ids) |-> None]]
    ELSE [s EXCEPT !.state = "ended", !.cache_complete = TRUE]
NextPass(s, count) ==
    IF s.repeat /\ count > 0
    THEN [s EXCEPT !.pass = s.pass + 1, !.rd = 1, !.cache_complete = TRUE]
    ELSE [s EXCEPT !.state = "ended", !.cache_complete = TRUE]

(* ------------------------------ inputs -------------------------------- *)
Consumers == {1, 2}

\* a graph of N nodes lists them as N, N-1, ..., 1
Descending(N) == [p \in 1..N |-> N + 1 - p]

NotAGraph == [isStellarGraph |-> FALSE, node_types |-> <<>>, node_list |-> <<>>]

StellarGraphs(Ns, typeCounts) ==
    {[isStellarGraph |-> TRUE,
      node_types |-> [a \in 1..nt |-> a],
      node_list |-> IF nt = 0 THEN <<>> ELSE Descending(N)] :
        nt \in typeCounts, N \in Ns}

\* what eigs(laplacian, k) may return, cast to real: k eigenvalues and an
\* (N x k) matrix of eigenvectors; a seed of 0 gives no positive eigenvalue
EigsOutcomes(N, k, seeds) ==
    IF EigsRejects(N, k) THEN {[vals |-> <<>>, vecs |-> <<>>]}
    ELSE {[vals |-> [j \in 1..k |-> v0 * j],
           vecs |-> [i \in 1..N |-> [j \in 1..k |-> ((i + j + v0) % 3) - 1]]] :
            v0 \in seeds}

Auto == [mode |-> "auto"]
Explicit(values) == [mode |-> "list", values |-> values]

NodeIdSeqs(pool, maxlen) == UNION {[1..n -> pool] : n \in 1..maxlen}

\* targets: absent, or one row per position, of a length around n
TargetChoices(n, lens) ==
    {None} \cup {Some([i \in 1..L |-> 10 * i + 7]) : L \in {n + d : d \in lens} \cap Nat}

SamplePointChoices(maxm) ==
    {[r \in 1..mm |-> (r + o) % 3] : mm \in 1..maxm, o \in {0, 2}}

(* ------------------------------ actions ------------------------------- *)
Init ==
    /\ gen = NoGenerator
    /\ streams = [c \in Consumers |-> NoStream]

\* GraphWaveGenerator.__init__
CanConstruct == gen.state = "none"

Construct(G, scales, num_scales, num_eigenvecs, eig) ==
    /\ CanConstruct
    /\ gen' = GraphWaveGenerator(G, scales, num_scales, num_eigenvecs, eig)
    /\ UNCHANGED streams

\* GraphWaveGenerator.flow, and taking an iterator over its result
CanFlow(c) == gen.state = "ok" /\ streams[c].state = "none"

flow(c, node_ids, sample_points, batch_size, targets, repeat, threads) ==
    /\ CanFlow(c)
    /\ streams' = [streams EXCEPT ![c] =
           FlowResult(gen, node_ids, sample_points, batch_size, targets,
                      repeat, threads)]
    /\ UNCHANGED gen

\* the smallest position whose embedding is not computed yet
FirstUnembedded(s) ==
    Min({i \in 1..(Len(s.node_ids) + 1) :
            i = Len(s.node_ids) + 1 \/ s.embs[i] = None})

\* first map: lambda x: tf.einsum("ijk,j->ik", self.Ues, x), on one of the
\* at most `threads` positions the parallel map works on
CanContract(s, i) ==
    /\ s.state = "open" /\ ~s.cache_complete
    /\ i \in 1..Len(s.node_ids)
    /\ s.samples[i] = None
    /\ i < FirstUnembedded(s) + s.threads

Contract(c, i) ==
    LET s == streams[c] IN
    /\ CanContract(s, i)
    /\ streams' = [streams EXCEPT ![c] =
           [s EXCEPT !.samples[i] = Some(Einsum(gen.Ues, s.rows[i])),
                     !.ncontract[i] = @ + 1]]
    /\ UNCHANGED gen

\* second map: lambda x: _empirical_characteristic_function(x, ts)
CanEcf(s, i) ==
    /\ s.state = "open" /\ ~s.cache_complete
    /\ i \in 1..Len(s.node_ids)
    /\ s.samples[i] # None /\ s.embs[i] = None
    /\ i <= Len(s.cache) + s.threads

Ecf(c, i) ==
    LET s == streams[c] IN
    /\ CanEcf(s, i)
    /\ streams' = [streams EXCEPT ![c] =
           [s EXCEPT !.embs[i] =
                        Some(_empirical_characteristic_function(s.samples[i][1], s.ts)),
                     !.necf[i] = @ + 1]]
    /\ UNCHANGED gen

\* first pass: zip the next embedding with its target, write it to the
\* cache and hand it to batch
CanProduce(s) ==
    /\ s.state = "open" /\ ~s.cache_complete
    /\ NextDeliverable(s) \in 1..Len(s.node_ids)
    /\ s.embs[NextDeliverable(s)] # None
    /\ s.targets # None => Len(s.cache) + 1 <= Len(s.targets[1])

Produce(c) ==
    LET s == streams[c]
        i == NextDeliverable(s)
    IN
    /\ CanProduce(s)
    /\ LET e == ZipElement(s, i)
       IN  streams' = [streams EXCEPT ![c] =
               Batched([s EXCEPT !.cache = Append(s.cache, e)], e)]
    /\ UNCHANGED gen

\* later passes: the next element comes from the cache
CanReplay(s) ==
    /\ s.state = "open" /\ s.cache_complete
    /\ s.pass <= MaxPasses
    /\ s.rd <= Len(s.cache)

Replay(c) ==
    LET s == streams[c] IN
    /\ CanReplay(s)
    /\ streams' = [streams EXCEPT ![c] =
           Batched([s EXCEPT !.rd = s.rd + 1], CacheRead(s.cache, s.rd))]
    /\ UNCHANGED gen

\* the input of batch is exhausted: the partial batch is yielded, then
\* repeat starts the next pass or the stream ends
CanEndPass(s) ==
    /\ s.state = "open"
    /\ s.pass <= MaxPasses
    /\ IF s.cache_complete THEN s.rd > Len(s.cache) ELSE UpstreamExhausted(s)

EndOfPass(c) ==
    LET s == streams[c] IN
    /\ CanEndPass(s)
    /\ LET pb == PassBoundary(s)
           s2 == [s EXCEPT !.out = s.out \o pb.emit, !.cur = pb.carry]
       IN  streams' = [streams EXCEPT ![c] = NextPass(s2, Len(s.cache))]
    /\ UNCHANGED gen

\* some step of the iterator is enabled: each step's guard is the Can...
\* predicate of its action, and what follows the guard constrains no state
CanStep(s) ==
    \/ \E i \in 1..Len(s.node_ids) : CanContract(s, i) \/ CanEcf(s, i)
    \/ CanProduce(s)
    \/ CanReplay(s)
    \/ CanEndPass(s)

\* the steps of consumer c's iterator
Stream(c) ==
    \/ \E i \in 1..MaxIds : Contract(c, i)
    \/ \E i \in 1..MaxIds : Ecf(c, i)
    \/ Produce(c)
    \/ Replay(c)
    \/ EndOfPass(c)

(* --------------------------- specifications --------------------------- *)
\* Spec: one consumer; node_ids, batch_size, targets, repeat and threads vary
GraphsOne == StellarGraphs({3}, {1})

Next ==
    \/ CanConstruct /\ \E G \in GraphsOne :
         \E eig \in EigsOutcomes(Len(G.node_list), Len(G.node_list) - 2, {1}) :
           Construct(G, Explicit(<<1000>>), 1, AutoNumEigenvecs, eig)
    \/ CanFlow(1) /\ \E node_ids \in NodeIdSeqs({1, 2, MaxNodes + 1}, MaxIds),
          batch_size \in 1..MaxBatch, repeat \in BOOLEAN,
          threads \in 1..MaxThreads :
         \E targets \in TargetChoices(Len(node_ids), {-1, 0, 1}) :
           flow(1, node_ids, <<0, 1>>, batch_size, targets, repeat, threads)
    \/ Stream(1)

Spec == Init /\ [][Next]_vars

\* SpecEmb: one consumer; the graph, the constructor's arguments and the
\* sample points vary
GraphsAll == {NotAGraph} \cup StellarGraphs(3..MaxNodes, {0, 1, 2})

NextEmb ==
    \/ CanConstruct /\ \E G \in GraphsAll,
          scales \in {Auto, Explicit(<<1000>>), Explicit(<<500, 2000>>)},
          num_scales \in 1..MaxScales,
          num_eigenvecs \in {AutoNumEigenvecs} \cup (0..(MaxNodes - 1)) :
         \E eig \in EigsOutcomes(Len(G.node_list),
                                 NumEigenvecs(G, num_eigenvecs), {0, 1, 2}) :
           Construct(G, scales, num_scales, num_eigenvecs, eig)
    \/ CanFlow(1) /\ \E node_ids \in {<<1>>, <<3, 1>>, <<2, MaxNodes + 1>>},
          sample_points \in SamplePointChoices(MaxPoints),
          repeat \in BOOLEAN :
         flow(1, node_ids, sample_points, 1, None, repeat, 1)
    \/ Stream(1)

SpecEmb == Init /\ [][NextEmb]_vars

\* SpecPar: two consumers of one generator, each with its own threads
NextPar ==
    \/ CanConstruct /\ \E G \in StellarGraphs({3}, {1}) :
         \E eig \in EigsOutcomes(3, 1, {1}) :
           Construct(G, Explicit(<<1000>>), 1, AutoNumEigenvecs, eig)
    \/ \E c \in Consumers :
         CanFlow(c) /\ \E node_ids \in {<<1, 2>>, <<3, 1, 2>>},
                           repeat \in BOOLEAN, threads \in 1..MaxThreads :
         flow(c, node_ids, <<0, 1>>, 2, None, repeat, threads)
    \/ \E c \in Consumers : Stream(c)

SpecPar == Init /\ [][NextPar]_vars

(* ----------------------------- properties ----------------------------- *)
\* the consumers whose flow() call returned a stream
Opened == {c \in Consumers : streams[c].state \in {"open", "ended"}}

\* the elements a stream has yielded, flattened across batches
Yielded(s) == Flatten(s.out)

\* the embedding of one node, computed on its own
RefEmbedding(id, ts) ==
    _empirical_characteristic_function(
        Einsum(gen.Ues, gen.eigen_vecs[gen.node_index_dict[id] + 1]), ts)

\* position j of the endless repetition of 1..n
Wrap(j, n) == ((j - 1) % n) + 1

\* targets, when given, has a row for every position of node_ids
EnoughTargets(s) == s.targets = None \/ Len(s.targets[1]) >= Len(s.node_ids)

CeilDiv(n, b) == (n + b - 1) \div b

\* C1: with repeat=True the stream never ends and what it yields is the
\* one-pass sequence of n embeddings over and over (so the first 2n are that
\* sequence twice); with repeat=False it yields the one-pass sequence, can
\* always take its next step until it has ended, and has then yielded
\* exactly n embeddings.
RepeatSemantics ==
    \A c \in Opened :
      LET s == streams[c]
          n == Len(s.node_ids)
          y == Yielded(s)
      IN  EnoughTargets(s) =>
            /\ \A j \in 1..Len(y) :
                 y[j].emb = RefEmbedding(s.node_ids[Wrap(j, n)], s.ts)
            /\ s.repeat =>
                 /\ s.state # "ended"
                 /\ s.pass <= MaxPasses => CanStep(s)
                 /\ s.pass > MaxPasses => Len(y) = MaxPasses * n
            /\ ~s.repeat =>
                 /\ Len(y) <= n
                 /\ s.state = "open" => CanStep(s)
                 /\ s.state = "ended" => Len(y) = n

RepeatSemanticsWitness ==
    LET s == streams[1] IN
    /\ s.state = "open" /\ s.repeat
    /\ Len(s.node_ids) = 3 /\ s.batch_size = 2
    /\ Len(Yielded(s)) = 6
    /\ Yielded(s)[1].emb # Yielded(s)[2].emb

\* C2: with targets of leading dimension len(node_ids), every yielded row
\* pairs the embedding of node_ids[i] with targets[i] and with no other row,
\* and the embeddings come in node_ids order, on every pass.
TargetPairing ==
    \A c \in Opened :
      LET s == streams[c]
          n == Len(s.node_ids)
          y == Yielded(s)
      IN  (s.targets # None /\ Len(s.targets[1]) = n) =>
            \A j \in 1..Len(y) :
              /\ y[j].src = Wrap(j, n)
              /\ y[j].emb = RefEmbedding(s.node_ids[y[j].src], s.ts)
              /\ \A i \in 1..n : (y[j].tgt = Some(s.targets[1][i])) <=> (y[j].src = i)

TargetPairingWitness ==
    LET s == streams[1] IN
    /\ s.state = "open" /\ s.repeat /\ s.targets # None
    /\ Len(s.node_ids) = 3 /\ Len(s.targets[1]) = 3 /\ s.batch_size = 2
    /\ Len(s.out) = 4

\* the ids of a flow() call that the node index mapping does not hold
Unresolvable(s) == {v \in Range(s.node_ids) : v \notin DOMAIN gen.node_index_dict}

\* C3: flow() with an id outside the node index mapping fails with a lookup
\* error that names the unresolvable id, and returns no stream.
LookupErrorNamesId ==
    \A c \in Consumers :
      LET s == streams[c] IN
        (s.state # "none" /\ Unresolvable(s) # {}) =>
            /\ s.state = "error"
            /\ s.error.type \in {"KeyError", "LookupError"}
            /\ s.error.ids \cap Unresolvable(s) # {}

\* every embedding a stream holds: computed, cached or yielded
Embeddings(s) ==
    {s.embs[i][1] : i \in {a \in 1..Len(s.node_ids) : s.embs[a] # None}}
      \cup {s.cache[a].emb : a \in 1..Len(s.cache)}
      \cup {Yielded(s)[a].emb : a \in 1..Len(Yielded(s))}

\* C4: every embedding has length 2 * m * S, whatever N and num_eigenvecs.
EmbeddingLength ==
    \A c \in Opened :
      \A e \in Embeddings(streams[c]) :
        Len(e) = 2 * Len(streams[c].ts) * Len(gen.scales)

EmbeddingLengthWitness ==
    LET s == streams[1] IN
    /\ s.state = "open" /\ s.pass = 2 /\ Len(s.out) >= 3
    /\ Len(s.ts) = 2 /\ Len(gen.scales) = 2
    /\ Len(gen.node_list) = 4 /\ Len(gen.eigen_vals) = 2

\* C5: with repeat=True each position of node_ids is transformed at most
\* once, later passes read the complete cache, and the cache holds at most
\* len(node_ids) elements.
CachedPasses ==
    \A c \in Opened :
      LET s == streams[c] IN
        s.repeat =>
          /\ \A i \in 1..Len(s.node_ids) : s.ncontract[i] <= 1 /\ s.necf[i] <= 1
          /\ Len(s.cache) <= Len(s.node_ids)
          /\ s.pass > 1 =>
               /\ s.cache_complete
               /\ \A j \in 1..Len(Yielded(s)) :
                    Yielded(s)[j].pass > 1 =>
                      \E a \in 1..Len(s.cache) :
                        /\ s.cache[a].emb = Yielded(s)[j].emb
                        /\ s.cache[a].src = Yielded(s)[j].src

CachedPassesWitness ==
    LET s == streams[1] IN
    /\ s.state = "open" /\ s.repeat /\ s.pass > MaxPasses
    /\ Len(s.node_ids) = 3
    /\ \A i \in 1..3 : s.ncontract[i] = 1 /\ s.necf[i] = 1

\* C6: construction fails, and no generator and no stream exists, when G is
\* not a StellarGraph or has zero or several node types; a generator exists
\* only for a StellarGraph with exactly one node type.
SingleNodeType ==
    gen.state # "none" =>
      /\ (~gen.G.isStellarGraph \/ Len(gen.G.node_types) # 1) =>
           /\ gen.state = "error"
           /\ "Ues" \notin DOMAIN gen
           /\ \A c \in Consumers : streams[c].state = "none"
      /\ gen.state = "ok" =>
           gen.G.isStellarGraph /\ Len(gen.G.node_types) = 1

SingleNodeTypeWitness ==
    /\ gen.state = "error"
    /\ gen.G.isStellarGraph
    /\ Len(gen.G.node_types) = 0

\* C7: while streams of one generator are consumed side by side, with any
\* threads values and in any interleaving of their transform steps, no step
\* changes the generator, and every stream yields its elements in node_ids
\* order with the embeddings a lone, single-threaded pass computes.
InOrder(s) ==
    \A j \in 1..Len(Yielded(s)) :
      /\ Yielded(s)[j].src = Wrap(j, Len(s.node_ids))
      /\ Yielded(s)[j].emb = RefEmbedding(s.node_ids[Yielded(s)[j].src], s.ts)

SharedReadOnly ==
    /\ [](\A c \in Opened : InOrder(streams[c]))
    /\ [][gen.state = "ok" => gen' = gen]_vars

SharedReadOnlyWitness ==
    /\ streams[1].state = "open" /\ streams[2].state = "open"
    /\ streams[1].threads = 2 /\ Len(streams[1].node_ids) = 3
    /\ streams[1].embs[3] # None /\ Len(streams[1].out) = 1
    /\ streams[2].pass = 2 /\ Len(streams[2].out) >= 2

\* every samples tensor a stream's first map has produced
Samples(s) ==
    {s.samples[i][1] : i \in {a \in 1..Len(s.node_ids) : s.samples[a] # None}}

\* C8 as claimed: the samples handed to the sampler have shape
\* (num_eigenvecs, num_scales) and each mean is over num_eigenvecs draws.
SamplesShapeK ==
    \A c \in Opened :
      /\ \A x \in Samples(streams[c]) :
           /\ Len(x) = Len(gen.eigen_vals)
           /\ \A a \in 1..Len(x) : Len(x[a]) = Len(gen.scales)
      /\ \A e \in Embeddings(streams[c]) :
           \A a \in 1..Len(e) : e[a].den = Len(gen.eigen_vals)

\* C8 as the code has it: the contraction sums over the eigenvector axis and
\* leaves the samples with shape (N, num_scales), N the number of nodes of
\* the graph, and each mean is over N draws per scale.
SamplesShapeN ==
    \A c \in Opened :
      /\ \A x \in Samples(streams[c]) :
           /\ Len(x) = Len(gen.node_list)
           /\ \A a \in 1..Len(x) : Len(x[a]) = Len(gen.scales)
      /\ \A e \in Embeddings(streams[c]) :
           \A a \in 1..Len(e) : e[a].den = Len(gen.node_list)

SamplesShapeWitness ==
    LET s == streams[1] IN
    /\ s.state = "open" /\ Len(s.out) >= 1
    /\ Len(gen.node_list) = 4 /\ Len(gen.eigen_vals) = 2 /\ Len(gen.scales) = 2
    /\ Samples(s) # {}

\* the mean over the draws of cos(t * x), and of sin(t * x), at one scale
MeanCos(samples, t, sc) ==
    [num |-> SumSeq([i \in 1..Len(samples) |-> Cos(samples[i][sc] * t)]),
     den |-> Len(samples)]
MeanSin(samples, t, sc) ==
    [num |-> SumSeq([i \in 1..Len(samples) |-> Sin(samples[i][sc] * t)]),
     den |-> Len(samples)]

\* C9: cosines and sines are stacked: with m sample points and S scales,
\* entry r*S+s (counted from 0) is the mean cosine and entry (m+r)*S+s the
\* mean sine for (ts[r], scale s); at ts[r] = 0 the cosine entry is 1 and
\* the sine entry is 0.
StackedLayout ==
    \A c \in Opened :
      LET s == streams[c]
          m == Len(s.ts)
          S == Len(gen.scales)
      IN  \A j \in 1..Len(Yielded(s)) :
            LET e == Yielded(s)[j].emb
                x == s.samples[Yielded(s)[j].src][1]
            IN  \A r \in 0..(m - 1), sc \in 0..(S - 1) :
                  /\ e[r * S + sc + 1] = MeanCos(x, s.ts[r + 1], sc + 1)
                  /\ e[(m + r) * S + sc + 1] = MeanSin(x, s.ts[r + 1], sc + 1)
                  /\ s.ts[r + 1] = 0 =>
                       /\ e[r * S + sc + 1].num = e[r * S + sc + 1].den
                       /\ e[(m + r) * S + sc + 1].num = 0

StackedLayoutWitness ==
    LET s == streams[1] IN
    /\ s.state = "open" /\ Len(s.out) >= 2
    /\ s.ts = <<0, 1>> /\ Len(gen.scales) = 2
    /\ \E a \in 1..8 : Yielded(s)[1].emb[a].num \notin {0, Yielded(s)[1].emb[a].den}

\* the batches of pass p, in the order yielded
BatchesOfPass(s, p) == SelectSeq(s.out, LAMBDA B : B[1].pass = p)

\* C10: a pass is ceil(n/b) batches, all of b elements but the last, which
\* has n - b*(ceil(n/b)-1); no batch holds elements of two passes, so with
\* repeat=True every pass ends with the same short batch.
BatchShape ==
    \A c \in Opened :
      LET s == streams[c]
          n == Len(s.node_ids)
          b == s.batch_size
      IN  EnoughTargets(s) =>
            /\ \A a \in 1..Len(s.out) :
                 /\ \A j \in 1..Len(s.out[a]) : s.out[a][j].pass = s.out[a][1].pass
                 /\ Len(s.out[a]) \in 1..b
            /\ \A p \in 1..MaxPasses :
                 LET bs == BatchesOfPass(s, p) IN
                   /\ Len(bs) <= CeilDiv(n, b)
                   /\ \A a \in 1..Len(bs) :
                        Len(bs[a]) = IF a < CeilDiv(n, b) THEN b
                                     ELSE n - b * (CeilDiv(n, b) - 1)
                   /\ (p < s.pass \/ (p = s.pass /\ s.state = "ended")) =>
                        Len(bs) = CeilDiv(n, b)
                   /\ p > s.pass => Len(bs) = 0

BatchShapeWitness ==
    LET s == streams[1] IN
    /\ s.state = "open" /\ s.repeat
    /\ Len(s.node_ids) = 3 /\ s.batch_size = 2
    /\ Len(s.out) = 4
    /\ Len(s.out[2]) = 1 /\ Len(s.out[4]) = 1

=============================================================================
